---- MODULE Spec2Model ----
(***************************************************************************)
(* The signal pipeline of src/fetch/signals.py: twelve series are fetched  *)
(* one after another, ten extractors append signal records to a list, and  *)
(* the list is written to docs/signals.json.                               *)
(*                                                                         *)
(* Floating-point numbers are modelled exactly: a float is a record        *)
(* [n, d] standing for n/d, with d = 0 for the IEEE specials (0/0 is NaN,  *)
(* 1/0 is +inf, -1/0 is -inf).  Rounding is not modelled.  Money amounts   *)
(* of the net-liquidity formula are carried in units of 10^6.              *)
(***************************************************************************)
EXTENDS Integers, Sequences, FiniteSets, TLC

(***************************************************************************)
(* Exact floats                                                            *)
(***************************************************************************)
Abs(x) == IF x < 0 THEN -x ELSE x

Sign(x) == IF x < 0 THEN -1 ELSE IF x = 0 THEN 0 ELSE 1

RECURSIVE GCD(_, _)
GCD(a, b) == IF b = 0 THEN a ELSE GCD(b, a % b)

Norm(n, d) ==
    IF d = 0 THEN [n |-> Sign(n), d |-> 0]
    ELSE LET g == GCD(Abs(n), Abs(d))
             s == Sign(d)
         IN  [n |-> (s * n) \div g, d |-> (s * d) \div g]

Num(k) == [n |-> k, d |-> 1]

NaN == [n |-> 0, d |-> 0]

IsNaN(a) == a.d = 0 /\ a.n = 0

IsInf(a) == a.d = 0 /\ a.n # 0

IsFinite(a) == a.d # 0

FNeg(a) == [n |-> -a.n, d |-> a.d]

FAdd(a, b) ==
    IF IsNaN(a) \/ IsNaN(b) THEN NaN
    ELSE IF IsInf(a) THEN (IF IsInf(b) /\ b.n # a.n THEN NaN ELSE a)
    ELSE IF IsInf(b) THEN b
    ELSE Norm(a.n * b.d + b.n * a.d, a.d * b.d)

FSub(a, b) == FAdd(a, FNeg(b))

FMul(a, b) == Norm(a.n * b.n, a.d * b.d)

FDiv(a, b) == Norm(a.n * b.d, a.d * b.n)

\* a < b, false when either is NaN
FLt(a, b) ==
    IF IsNaN(a) \/ IsNaN(b) THEN FALSE
    ELSE IF a.d = 0 \/ b.d = 0
         THEN (IF a.d = 0 /\ b.d = 0 THEN a.n < b.n
               ELSE IF a.d = 0 THEN a.n < 0 ELSE b.n > 0)
    ELSE a.n * b.d < b.n * a.d

FLe(a, b) == ~IsNaN(a) /\ ~IsNaN(b) /\ ~FLt(b, a)

(***************************************************************************)
(* Series and frames.  A Series is a sequence of observations [t, v]       *)
(* ordered by strictly increasing date t; a missing observation has        *)
(* v = NaN.  A frame is a sequence of rows [t, c] ordered by date, c a     *)
(* function from column names to floats.                                   *)
(***************************************************************************)
EmptySeries == << >>

empty(s) == Len(s) = 0

\* keeps the missing observations
dropna_keep(s) == s

dropna(s) == SelectSeq(s, LAMBDA o : ~IsNaN(o.v))

\* reads the oldest entry instead of the latest
iloc_first(s) == s[1].v

\* s.iloc[-1]; the caller guards against an empty s
iloc_last(s) == s[Len(s)].v

Dates(s) == {s[i].t : i \in 1..Len(s)}

At(s, t) == IF t \in Dates(s) THEN (CHOOSE o \in {s[i] : i \in 1..Len(s)} : o.t = t).v ELSE NaN

RECURSIVE SortedDates(_)
SortedDates(D) ==
    IF D = {} THEN << >>
    ELSE LET m == CHOOSE x \in D : \A y \in D : x <= y
         IN  <<m>> \o SortedDates(D \ {m})

RECURSIVE FSum(_)
FSum(vs) == IF Len(vs) = 0 THEN Num(0) ELSE FAdd(vs[1], FSum(Tail(vs)))

\* the non-missing values of s, in order (pandas reductions skip NaN)
Present(s) == LET c == dropna(s) IN [i \in 1..Len(c) |-> c[i].v]

mean(s) == LET p == Present(s) IN FDiv(FSum(p), Num(Len(p)))

\* series.std() squared: the sample variance (ddof = 1), NaN below two points
variance(s) ==
    LET p  == Present(s)
        m  == mean(s)
        sq == [i \in 1..Len(p) |-> FMul(FSub(p[i], m), FSub(p[i], m))]
    IN  IF Len(p) <= 1 THEN NaN ELSE FDiv(FSum(sq), Num(Len(p) - 1))

\* num / sqrt(var) is kept as the pair: the square root is not rational
ZDiv(num, var) == [num |-> num, var |-> var]

\* whether num / sqrt(var) is NaN: a NaN operand, 0/0 or inf/inf
ZIsNaN(z) ==
    \/ IsNaN(z.num)
    \/ IsNaN(z.var)
    \/ (z.num = Num(0) /\ z.var = Num(0))
    \/ (IsInf(z.num) /\ IsInf(z.var))

zscore(s) ==
    LET m == mean(s)
        v == variance(s)
    IN  [i \in 1..Len(s) |-> [t |-> s[i].t, v |-> ZDiv(FSub(s[i].v, m), v)]]

diff(s) ==
    [i \in 1..Len(s) |->
        [t |-> s[i].t, v |-> IF i = 1 THEN NaN ELSE FSub(s[i].v, s[i - 1].v)]]

clip_lower(s, lo) ==
    [i \in 1..Len(s) |-> [t |-> s[i].t, v |-> IF FLt(s[i].v, lo) THEN lo ELSE s[i].v]]

clip_upper(s, hi) ==
    [i \in 1..Len(s) |-> [t |-> s[i].t, v |-> IF FLt(hi, s[i].v) THEN hi ELSE s[i].v]]

neg(s) == [i \in 1..Len(s) |-> [t |-> s[i].t, v |-> FNeg(s[i].v)]]

\* series.rolling(period).mean(): defined once the window holds period values
rolling_mean(s, period) ==
    [i \in 1..Len(s) |->
        [t |-> s[i].t,
         v |-> IF i < period \/ \E j \in (i - period + 1)..i : IsNaN(s[j].v)
               THEN NaN
               ELSE FDiv(FSum([k \in 1..period |-> s[i - period + k].v]), Num(period))]]

compute_rsi(s, period) ==
    LET delta    == diff(s)
        gain     == clip_lower(delta, Num(0))
        loss     == neg(clip_upper(delta, Num(0)))
        avg_gain == rolling_mean(gain, period)
        avg_loss == rolling_mean(loss, period)
        rs       == [i \in 1..Len(s) |-> FDiv(avg_gain[i].v, avg_loss[i].v)]
    IN  [i \in 1..Len(s) |->
            [t |-> s[i].t,
             v |-> FSub(Num(100), FDiv(Num(100), FAdd(Num(1), rs[i])))]]

(***************************************************************************)
(* The catalog                                                             *)
(***************************************************************************)
\* the provider identifiers, in the order the module fetches them
CallOrder ==
    <<"DFII10", "T10YIE", "DTWEXBGS", "BAMLH0A0HYM2", "BAMLC0A0CM", "WALCL",
      "RRPONTSYD", "WTREGEN", "ICSA", "SP500", "VIXCLS", "VXVCLS">>

\* the signal ids, in the order of their blocks
Catalog ==
    <<"real_yield", "breakeven", "usd", "hy_oas", "ig_oas", "net_liquidity",
      "claims", "spx_rsi14", "vix_level", "vix_term">>

\* series[...]: the identifier behind each of the seven one-series signals
SimpleCode(id) ==
    CASE id = "real_yield" -> "DFII10"
      [] id = "breakeven"  -> "T10YIE"
      [] id = "usd"        -> "DTWEXBGS"
      [] id = "hy_oas"     -> "BAMLH0A0HYM2"
      [] id = "ig_oas"     -> "BAMLC0A0CM"
      [] id = "claims"     -> "ICSA"
      [] id = "vix_level"  -> "VIXCLS"

SimpleIds == {"real_yield", "breakeven", "usd", "hy_oas", "ig_oas", "claims", "vix_level"}

Desc(id) ==
    CASE id = "real_yield"    -> "10-year TIPS real yield; rising real yields pressure growth and long-duration assets."
      [] id = "breakeven"     -> "10-year inflation breakeven; higher breakevens imply rising inflation expectations."
      [] id = "usd"           -> "Trade-weighted USD (broad); a stronger dollar can be a headwind for risk assets and commodities."
      [] id = "hy_oas"        -> "High-yield credit option-adjusted spread; widening spreads suggest stress in credit markets."
      [] id = "ig_oas"        -> "Investment-grade credit spread; widening indicates risk aversion and tightening conditions."
      [] id = "net_liquidity" -> "Net liquidity = Fed balance sheet minus reverse repo and Treasury cash; rising liquidity supports risk assets."
      [] id = "claims"        -> "Weekly initial unemployment claims; rising claims may signal labor market weakness."
      [] id = "spx_rsi14"     -> "S&P 500 RSI (14-day); measures momentum; overbought >70, oversold <30."
      [] id = "vix_level"     -> "CBOE Volatility Index (VIX); higher levels signal market stress."
      [] id = "vix_term"      -> "VIX term structure (VIX minus VIX3M); positive spread indicates backwardation (stress)."

\* compute_rsi's default period
Period == 14

\* 1e6 and 1e9 of the net-liquidity formula, in units of 10^6
E6 == 1

E9 == 1000

(***************************************************************************)
(* The blocks' computations                                                *)
(***************************************************************************)
\* {"id": ..., "value": val, "z": z, "desc": desc}, val and z read at iloc[-1]
Record(id, s) ==
    [id |-> id, value |-> iloc_last(s), z |-> iloc_last(zscore(s)), desc |-> Desc(id)]

\* puts the new record in front of the list
Emit_front(sigs, id, s) == IF empty(s) THEN sigs ELSE <<Record(id, s)>> \o sigs

\* what a block leaves in signals: the record appended when its series is not empty
Emit(sigs, id, s) == IF empty(s) THEN sigs ELSE Append(sigs, Record(id, s))

\* pd.DataFrame({"walcl": walcl, "rrp": rrp, "tga": tga}): the rows of the union
\* of the three indexes, a column being NaN where its series has no entry
NetFrame(w, r, g) ==
    LET idx == SortedDates(Dates(w) \cup Dates(r) \cup Dates(g))
    IN  [i \in 1..Len(idx) |->
            [t |-> idx[i], walcl |-> At(w, idx[i]), rrp |-> At(r, idx[i]),
             tga |-> At(g, idx[i])]]

\* df.resample("D").ffill(): one row per calendar day from the first to the last
\* date, the row of a day being the frame's row at the latest date on or before
\* it; a NaN that the frame already holds in that row is kept
resample_D_ffill(df) ==
    IF Len(df) = 0 THEN df
    ELSE LET first == df[1].t
             last  == df[Len(df)].t
         IN  [k \in 1..(last - first + 1) |->
                LET day == first + k - 1
                    src == CHOOSE i \in 1..Len(df) :
                              /\ df[i].t <= day
                              /\ \A j \in 1..Len(df) : df[j].t <= day => j <= i
                IN  [df[src] EXCEPT !.t = day]]

\* df["walcl"] * 1e6 - df["rrp"] * 1e9 - df["tga"] * 1e9, then dropna
NetLiquiditySeries(w, r, g) ==
    LET df  == resample_D_ffill(NetFrame(w, r, g))
        net == [i \in 1..Len(df) |->
                  [t |-> df[i].t,
                   v |-> FSub(FSub(FMul(df[i].walcl, Num(E6)), FMul(df[i].rrp, Num(E9))),
                              FMul(df[i].tga, Num(E9)))]]
    IN  dropna(net)

\* pd.DataFrame({"vix": vix, "vix3m": vix3m}).dropna(), then vix - vix3m
SpreadSeries(v, v3) ==
    LET idx  == SortedDates(Dates(v) \cup Dates(v3))
        df   == [i \in 1..Len(idx) |->
                   [t |-> idx[i], vix |-> At(v, idx[i]), vix3m |-> At(v3, idx[i])]]
        kept == SelectSeq(df, LAMBDA row : ~IsNaN(row.vix) /\ ~IsNaN(row.vix3m))
    IN  [i \in 1..Len(kept) |-> [t |-> kept[i].t, v |-> FSub(kept[i].vix, kept[i].vix3m)]]

\* json.dump's text for one float: NaN and the infinities have their own tokens
JsonFloat(x) ==
    IF IsNaN(x) THEN [tok |-> "NaN"]
    ELSE IF IsInf(x) THEN [tok |-> IF x.n > 0 THEN "Infinity" ELSE "-Infinity"]
    ELSE [tok |-> "number", n |-> x.n, d |-> x.d]

JsonZ(z) == IF ZIsNaN(z) THEN [tok |-> "NaN"] ELSE [tok |-> "number", num |-> z.num, var |-> z.var]

\* json.dump(signals, f, indent=2): an array of objects in list order
json_dump(sigs) ==
    [i \in 1..Len(sigs) |->
        [id |-> sigs[i].id, value |-> JsonFloat(sigs[i].value), z |-> JsonZ(sigs[i].z),
         desc |-> sigs[i].desc]]

(***************************************************************************)
(* The provider.  A call either raises or returns a series.  The model     *)
(* lets the provider answer either from a small catalogue for every        *)
(* identifier (it raises or returns the identifier's base series), or with *)
(* any bounded series for the identifiers of one block while every call    *)
(* of the other blocks raises.                                             *)
(***************************************************************************)
MaxDay == 3

SpxLen == 16

MaxMoves == 1

\* what an observation may be: missing or a value; the second series of the
\* VIX pair takes one value only
ObsValues(code) == IF code = "VXVCLS" THEN {NaN, Num(1)} ELSE {NaN, Num(1), Num(2)}

\* the days on which the three net-liquidity series may be sampled
NLDays == {1, 3}

Raise == [ok |-> FALSE, data |-> EmptySeries]

Ok(s) == [ok |-> TRUE, data |-> s]

MkSeries(D, f) ==
    LET idx == SortedDates(D)
    IN  [i \in 1..Len(idx) |-> [t |-> idx[i], v |-> f[idx[i]]]]

AllSeries(days, values) == UNION {{MkSeries(D, f) : f \in [D -> values]} : D \in SUBSET days}

\* a price path of len days from 10 that moves by g[j] on the days j of P
PricePath(len, P, g) ==
    [i \in 1..len |->
        [t |-> i,
         v |-> Num(10 + Cardinality({j \in P : j <= i /\ g[j] = 1})
                      - Cardinality({j \in P : j <= i /\ g[j] = -1}))]]

SpxPaths ==
    UNION {UNION {{PricePath(len, P, g) : g \in [P -> {-1, 1}]} :
                    P \in {Q \in SUBSET (2..len) : Cardinality(Q) <= MaxMoves}} :
             len \in {Period, SpxLen}}

Block(code) ==
    CASE code \in {"WALCL", "RRPONTSYD", "WTREGEN"} -> "net_liquidity"
      [] code \in {"VIXCLS", "VXVCLS"} -> "vix"
      [] OTHER -> code

BaseSeries(code) ==
    IF code = "SP500"
    THEN PricePath(SpxLen, 2..SpxLen, [j \in 2..SpxLen |-> IF j = SpxLen THEN -1 ELSE 1])
    ELSE <<[t |-> 1, v |-> Num(1)], [t |-> 2, v |-> Num(2)]>>

Small(code) == {Raise, Ok(BaseSeries(code))}

Rich(code) ==
    CASE code = "SP500" -> {Ok(s) : s \in SpxPaths}
      [] Block(code) = "net_liquidity" -> {Ok(s) : s \in AllSeries(NLDays, ObsValues(code))}
      [] OTHER -> {Ok(s) : s \in AllSeries(1..MaxDay, ObsValues(code))}

(***************************************************************************)
(* State                                                                   *)
(***************************************************************************)
VARIABLES
    pc,         \* the block the module is about to run
    signals,    \* the list signals
    calls,      \* the provider calls made so far, with their outcomes
    walcl,      \* the module's variables that a later block reads
    rrp,
    tga,
    vix,
    docs,       \* whether the directory docs exists (it holds the earlier file)
    file        \* docs/signals.json

vars == <<pc, signals, calls, walcl, rrp, tga, vix, docs, file>>

\* the outcomes the model lets fred.get_series(code) have in the current run
Responses(code) ==
    LET others == {calls[i] : i \in {j \in 1..Len(calls) : Block(calls[j].code) # Block(code)}}
    IN  IF \A o \in others : ~o.resp.ok THEN Small(code) \cup Rich(code)
        ELSE IF \E o \in others : o.resp \notin Small(o.code) THEN {Raise}
        ELSE Small(code)

\* answers a failed call with a placeholder observation
fetch_series_placeholder(resp) ==
    IF resp.ok THEN resp.data ELSE <<[t |-> 1, v |-> Num(0)]>>

\* fetch_series: an exception of the provider becomes an empty series
fetch_series(resp) == IF resp.ok THEN resp.data ELSE EmptySeries

\* calls the provider a second time when the first call raised
Called_retry(code, resp) ==
    IF resp.ok THEN Append(calls, [code |-> code, resp |-> resp])
    ELSE Append(Append(calls, [code |-> code, resp |-> resp]), [code |-> code, resp |-> resp])

\* fred.get_series(code, ...) is called once, whatever its outcome
Called(code, resp) == Append(calls, [code |-> code, resp |-> resp])

\* what an earlier run left behind in docs/signals.json
StaleFile ==
    [written |-> FALSE,
     array |-> json_dump(<<Record("real_yield", BaseSeries("DFII10"))>>)]

Init ==
    /\ pc = "start"
    /\ signals = << >>
    /\ calls = << >>
    /\ walcl = EmptySeries
    /\ rrp = EmptySeries
    /\ tga = EmptySeries
    /\ vix = EmptySeries
    /\ docs = TRUE
    /\ file = StaleFile

(***************************************************************************)
(* Steps                                                                   *)
(***************************************************************************)
\* fred = Fred(api_key=FRED_API_KEY): raises when no key is configured
Construct ==
    /\ pc = "start"
    /\ \/ pc' = "real_yield"
       \/ pc' = "aborted"
    /\ UNCHANGED <<signals, calls, walcl, rrp, tga, vix, docs, file>>

\* a one-series block: fetch, dropna, append when not empty
SimpleBlock(id, next) ==
    /\ pc = id
    /\ \E resp \in Responses(SimpleCode(id)) :
          LET s == dropna(fetch_series(resp))
          IN  /\ calls' = Called(SimpleCode(id), resp)
              /\ signals' = Emit(signals, id, s)
    /\ pc' = next
    /\ UNCHANGED <<walcl, rrp, tga, vix, docs, file>>

RealYield == SimpleBlock("real_yield", "breakeven")

Breakeven == SimpleBlock("breakeven", "usd")

Usd == SimpleBlock("usd", "hy_oas")

HyOas == SimpleBlock("hy_oas", "ig_oas")

IgOas == SimpleBlock("ig_oas", "walcl")

FetchWalcl ==
    /\ pc = "walcl"
    /\ \E resp \in Responses("WALCL") :
          /\ calls' = Called("WALCL", resp)
          /\ walcl' = fetch_series(resp)
    /\ pc' = "rrp"
    /\ UNCHANGED <<signals, rrp, tga, vix, docs, file>>

FetchRrp ==
    /\ pc = "rrp"
    /\ \E resp \in Responses("RRPONTSYD") :
          /\ calls' = Called("RRPONTSYD", resp)
          /\ rrp' = fetch_series(resp)
    /\ pc' = "tga"
    /\ UNCHANGED <<signals, walcl, tga, vix, docs, file>>

FetchTga ==
    /\ pc = "tga"
    /\ \E resp \in Responses("WTREGEN") :
          /\ calls' = Called("WTREGEN", resp)
          /\ tga' = fetch_series(resp)
    /\ pc' = "net_liquidity"
    /\ UNCHANGED <<signals, walcl, rrp, vix, docs, file>>

NetLiquidity ==
    /\ pc = "net_liquidity"
    /\ signals' = IF empty(walcl) THEN signals
                  ELSE Emit(signals, "net_liquidity", NetLiquiditySeries(walcl, rrp, tga))
    /\ pc' = "claims"
    /\ UNCHANGED <<calls, walcl, rrp, tga, vix, docs, file>>

Claims == SimpleBlock("claims", "spx_rsi14")

SpxRsi14 ==
    /\ pc = "spx_rsi14"
    /\ \E resp \in Responses("SP500") :
          LET spx == dropna(fetch_series(resp))
          IN  /\ calls' = Called("SP500", resp)
              /\ signals' = IF empty(spx) THEN signals
                            ELSE Emit(signals, "spx_rsi14", dropna(compute_rsi(spx, Period)))
    /\ pc' = "vix_level"
    /\ UNCHANGED <<walcl, rrp, tga, vix, docs, file>>

VixLevel ==
    /\ pc = "vix_level"
    /\ \E resp \in Responses("VIXCLS") :
          LET s == dropna(fetch_series(resp))
          IN  /\ calls' = Called("VIXCLS", resp)
              /\ vix' = s
              /\ signals' = Emit(signals, "vix_level", s)
    /\ pc' = "vix_term"
    /\ UNCHANGED <<walcl, rrp, tga, docs, file>>

\* spread.iloc[-1] raises IndexError on an empty spread: the module ends there
VixTerm ==
    /\ pc = "vix_term"
    /\ \E resp \in Responses("VXVCLS") :
          LET vix3m  == dropna(fetch_series(resp))
              spread == SpreadSeries(vix, vix3m)
          IN  /\ calls' = Called("VXVCLS", resp)
              /\ IF ~empty(vix) /\ ~empty(vix3m)
                 THEN IF empty(spread)
                      THEN signals' = signals /\ pc' = "aborted"
                      ELSE signals' = Append(signals, Record("vix_term", spread)) /\ pc' = "write"
                 ELSE signals' = signals /\ pc' = "write"
    /\ UNCHANGED <<walcl, rrp, tga, vix, docs, file>>

\* os.makedirs("docs", exist_ok=True); json.dump(signals, f, indent=2)
WriteSink ==
    /\ pc = "write"
    /\ docs' = TRUE
    /\ file' = [written |-> TRUE, array |-> json_dump(signals)]
    /\ pc' = "done"
    /\ UNCHANGED <<signals, calls, walcl, rrp, tga, vix>>

Next ==
    \/ Construct
    \/ RealYield
    \/ Breakeven
    \/ Usd
    \/ HyOas
    \/ IgOas
    \/ FetchWalcl
    \/ FetchRrp
    \/ FetchTga
    \/ NetLiquidity
    \/ Claims
    \/ SpxRsi14
    \/ VixLevel
    \/ VixTerm
    \/ WriteSink

Spec == Init /\ [][Next]_vars

(***************************************************************************)
(* Vocabulary of the properties                                            *)
(***************************************************************************)
WasCalled(code) == \E i \in 1..Len(calls) : calls[i].code = code

\* what the provider returned for code: nothing when the call raised
Returned(code) ==
    LET c == CHOOSE c \in {calls[i] : i \in 1..Len(calls)} : c.code = code
    IN  IF c.resp.ok THEN c.resp.data ELSE << >>

\* the observations of s that are not missing, in date order
NonMissing(s) == SelectSeq(s, LAMBDA o : o.v # NaN)

AllMissing(s) == \A i \in 1..Len(s) : s[i].v = NaN

Ids(list) == [i \in 1..Len(list) |-> list[i].id]

HasRecord(id) == \E i \in 1..Len(signals) : signals[i].id = id

RecordOf(id) == signals[CHOOSE i \in 1..Len(signals) : signals[i].id = id]

Written(id) == file.written /\ \E i \in 1..Len(file.array) : file.array[i].id = id

Values(s) == {s[i].v : i \in 1..Len(s)}

Ended == pc \in {"done", "aborted"}

(***************************************************************************)
(* C7                                                                      *)
(***************************************************************************)
\* C7: for each of the seven one-series signals, once its series has been
\* fetched with at least one non-missing observation, signals holds exactly one
\* record of that id, whose value is the chronologically last non-missing
\* observation and whose z is the last entry of the z-score of the non-missing
\* observations.
C7_SimpleValue ==
    \A id \in SimpleIds :
        (WasCalled(SimpleCode(id)) /\ ~AllMissing(Returned(SimpleCode(id)))) =>
            LET raw   == Returned(SimpleCode(id))
                clean == NonMissing(raw)
                k     == CHOOSE i \in 1..Len(raw) :
                            raw[i].v # NaN /\ \A j \in (i + 1)..Len(raw) : raw[j].v = NaN
            IN  /\ Cardinality({i \in 1..Len(signals) : signals[i].id = id}) = 1
                /\ RecordOf(id).value = raw[k].v
                /\ RecordOf(id).z = zscore(clean)[Len(clean)].v

\* a one-series signal was emitted from a series that ends in a missing
\* observation and holds two different values
C7_Witness ==
    \E id \in SimpleIds :
        /\ WasCalled(SimpleCode(id))
        /\ HasRecord(id)
        /\ LET raw == Returned(SimpleCode(id))
           IN  /\ Len(raw) >= 3
               /\ raw[Len(raw)].v = NaN
               /\ Cardinality(Values(NonMissing(raw))) = 2

(***************************************************************************)
(* C3                                                                      *)
(***************************************************************************)
\* the series a signal cannot do without
Required(id) ==
    CASE id \in SimpleIds      -> {SimpleCode(id)}
      [] id = "spx_rsi14"     -> {"SP500"}
      [] id = "net_liquidity" -> {"WALCL"}
      [] id = "vix_term"      -> {"VIXCLS", "VXVCLS"}

\* C3: for each of the ten signals, once a series it requires has been fetched
\* empty or with only missing observations (a fetch that raised included),
\* neither signals nor the written array ever holds a record of that signal.
C3_AbsentOnEmptyInput ==
    \A k \in 1..Len(Catalog) :
        \A code \in Required(Catalog[k]) :
            (WasCalled(code) /\ AllMissing(Returned(code))) =>
                /\ ~HasRecord(Catalog[k])
                /\ ~Written(Catalog[k])

\* the run wrote its file after WALCL came back with observations that are all
\* missing while RRP and TGA carried data, and net_liquidity is not in the list
C3_Witness ==
    /\ pc = "done"
    /\ file.written
    /\ Len(Returned("WALCL")) > 0
    /\ AllMissing(Returned("WALCL"))
    /\ ~AllMissing(Returned("RRPONTSYD"))
    /\ ~AllMissing(Returned("WTREGEN"))
    /\ ~HasRecord("net_liquidity")

(***************************************************************************)
(* C9                                                                      *)
(***************************************************************************)
CatalogPos(id) == CHOOSE k \in 1..Len(Catalog) : Catalog[k] = id

\* ids follow the catalog order strictly: a subsequence of it, no id twice
InCatalogOrder(ids) ==
    /\ \A i \in 1..Len(ids) : \E k \in 1..Len(Catalog) : Catalog[k] = ids[i]
    /\ \A i, j \in 1..Len(ids) : i < j => CatalogPos(ids[i]) < CatalogPos(ids[j])

IsPrefix(a, b) == Len(a) <= Len(b) /\ \A i \in 1..Len(a) : a[i] = b[i]

\* C9: at every point of every run the ids of signals form a subsequence of the
\* catalog order (so no id occurs twice), every step leaves signals as it is or
\* appends to it, and the written array has the ids of signals in the same order.
C9_CatalogOrder ==
    /\ [](InCatalogOrder(Ids(signals)) /\ (file.written => Ids(file.array) = Ids(signals)))
    /\ [][IsPrefix(signals, signals')]_vars

\* a finished run that collected and wrote all ten signals
C9_Witness ==
    /\ pc = "done"
    /\ file.written
    /\ Ids(signals) = Catalog
    /\ Ids(file.array) = Catalog

(***************************************************************************)
(* C10                                                                     *)
(***************************************************************************)
Codes(cs) == [i \in 1..Len(cs) |-> cs[i].code]

\* C10: the calls made so far are always an initial part of the fixed order of
\* the twelve identifiers (one call each, no retry, VIXCLS once); the file is
\* only ever changed by one step, taken after all twelve calls and all blocks,
\* which ends the run; a run that aborts leaves the earlier file as it was.
C10_EffectOrder ==
    /\ [](/\ IsPrefix(Codes(calls), CallOrder)
          /\ (pc \in {"write", "done"} => Codes(calls) = CallOrder)
          /\ (file.written <=> pc = "done")
          /\ (pc # "done" => file = StaleFile))
    /\ [][file' # file =>
            /\ pc = "write"
            /\ pc' = "done"
            /\ ~file.written
            /\ Codes(calls) = CallOrder
            /\ file'.array = json_dump(signals)]_vars

\* a finished run in which some call raised and was not repeated
C10_Witness ==
    /\ pc = "done"
    /\ file.written
    /\ Len(calls) = 12
    /\ \E i \in 1..Len(calls) : ~calls[i].resp.ok
    /\ \E i \in 1..Len(calls) : calls[i].resp.ok

(***************************************************************************)
(* C1                                                                      *)
(***************************************************************************)
\* the series a record's value and z are read from, in terms of what the
\* provider returned
Underlying(id) ==
    CASE id \in SimpleIds      -> NonMissing(Returned(SimpleCode(id)))
      [] id = "spx_rsi14"     -> NonMissing(compute_rsi(NonMissing(Returned("SP500")), Period))
      [] id = "net_liquidity" ->
            NetLiquiditySeries(Returned("WALCL"), Returned("RRPONTSYD"), Returned("WTREGEN"))
      [] id = "vix_term"      ->
            SpreadSeries(NonMissing(Returned("VIXCLS")), NonMissing(Returned("VXVCLS")))

\* C1 as stated: every record of signals has a defined, finite value and a
\* defined z, also when it is read from a series of one observation or of
\* constant value.
C1_AlwaysDefined ==
    \A i \in 1..Len(signals) : IsFinite(signals[i].value) /\ ~ZIsNaN(signals[i].z)

\* C1 as amended: every record of signals has a defined, finite value; its z is
\* undefined (NaN) exactly when the series it is read from holds a single
\* observation or a constant value, and defined otherwise.
C1_ValueDefinedZWhenSpread ==
    \A i \in 1..Len(signals) :
        /\ IsFinite(signals[i].value)
        /\ (ZIsNaN(signals[i].z) <=> Cardinality(Values(Underlying(signals[i].id))) <= 1)

\* the list holds a record read from a single observation, with z undefined,
\* next to a record with a defined z
C1_Witness ==
    \E i, j \in 1..Len(signals) :
        /\ Len(Underlying(signals[i].id)) = 1
        /\ ZIsNaN(signals[i].z)
        /\ IsFinite(signals[i].value)
        /\ ~ZIsNaN(signals[j].z)

(***************************************************************************)
(* C6, C2, C4                                                              *)
(***************************************************************************)
\* the dates on which both series have a non-missing observation
CommonDates(a, b) == Dates(NonMissing(a)) \cap Dates(NonMissing(b))

LatestOf(D) == CHOOSE t \in D : \A u \in D : u <= t

\* C6: once VIX3M has been fetched, whenever VIX and VIX3M both hold a
\* non-missing observation, signals holds a vix_term record; and a vix_term
\* record carries vix - vix3m at the latest date the two series share.
C6_VixTermEmitted ==
    WasCalled("VXVCLS") =>
        LET v  == Returned("VIXCLS")
            v3 == Returned("VXVCLS")
        IN  /\ ((~AllMissing(v) /\ ~AllMissing(v3)) => HasRecord("vix_term"))
            /\ (HasRecord("vix_term") =>
                  /\ CommonDates(v, v3) # {}
                  /\ RecordOf("vix_term").value =
                        FSub(At(v, LatestOf(CommonDates(v, v3))),
                             At(v3, LatestOf(CommonDates(v, v3)))))

\* C2: once the run has ended after the provider was called, every one-series
\* signal whose own series holds a non-missing observation is in the written
\* output, whatever the series of the other signals were.
C2_OthersStillWritten ==
    \A id \in SimpleIds :
        (Ended /\ WasCalled(SimpleCode(id)) /\ ~AllMissing(Returned(SimpleCode(id)))) =>
            Written(id)

\* C4: a run in which a provider call raised never aborts, and once all
\* twelve calls are made it goes on to write the file.
C4_FetchFailureNotFatal ==
    (\E i \in 1..Len(calls) : ~calls[i].resp.ok) =>
        /\ pc # "aborted"
        /\ (Len(calls) = Len(CallOrder) => pc \in {"write", "done"})

(***************************************************************************)
(* C5                                                                      *)
(***************************************************************************)
\* the latest non-missing observation of s on or before day; NaN when none
AsOf(s, day) ==
    LET D == {t \in Dates(NonMissing(s)) : t <= day}
    IN  IF D = {} THEN NaN ELSE At(s, LatestOf(D))

\* the net-liquidity series the forward fill is meant to give: one entry for
\* each calendar day of the union range on which all three series have an
\* observation on or before that day
FilledNetLiquidity(w, r, g) ==
    LET U    == Dates(w) \cup Dates(r) \cup Dates(g)
        days == IF U = {} THEN {}
                ELSE {d \in (CHOOSE t \in U : \A u \in U : t <= u)..LatestOf(U) :
                        AsOf(w, d) # NaN /\ AsOf(r, d) # NaN /\ AsOf(g, d) # NaN}
        idx  == SortedDates(days)
    IN  [i \in 1..Len(idx) |->
            [t |-> idx[i],
             v |-> FSub(FSub(FMul(AsOf(w, idx[i]), Num(E6)), FMul(AsOf(r, idx[i]), Num(E9))),
                        FMul(AsOf(g, idx[i]), Num(E9)))]]

\* C5: once the net-liquidity block has run on a non-empty WALCL, the series it
\* retains has, for every calendar day on which each of the three series has an
\* observation on or before that day, the entry walcl*1e6 - rrp*1e9 - tga*1e9
\* of the most recent observations, and no other entry; the emitted value is
\* the entry of the last such day.
C5_ForwardFill ==
    (WasCalled("WTREGEN") /\ pc # "net_liquidity" /\ ~empty(walcl)) =>
        LET want == FilledNetLiquidity(walcl, rrp, tga)
        IN  /\ NetLiquiditySeries(walcl, rrp, tga) = want
            /\ (HasRecord("net_liquidity") <=> Len(want) > 0)
            /\ (Len(want) > 0 => RecordOf("net_liquidity").value = want[Len(want)].v)

(***************************************************************************)
(* C8                                                                      *)
(***************************************************************************)
\* no price of the window of period differences that ends at position i fell
NoLossWindow(s, i, period) ==
    /\ i > period
    /\ \A j \in (i - period + 1)..i : ~FLt(s[j].v, s[j - 1].v)

\* C8: once the S&P 500 series has been fetched, compute_rsi of its non-missing
\* prices is exactly 100 at every position whose window of 14 differences has
\* no loss (a window of unchanged prices included), and every defined RSI lies
\* in 0..100 and at a position after the first 14.
C8_RsiSaturates ==
    WasCalled("SP500") =>
        LET prices == NonMissing(Returned("SP500"))
            rsi    == compute_rsi(prices, Period)
        IN  \A i \in 1..Len(prices) :
                /\ (NoLossWindow(prices, i, Period) => rsi[i].v = Num(100))
                /\ (rsi[i].v # NaN =>
                      /\ FLe(Num(0), rsi[i].v)
                      /\ FLe(rsi[i].v, Num(100))
                      /\ i > Period)

====
